---- MODULE Spec2Model ----
(***************************************************************************)
(* Model of procedure/foundations.py: the Procedure base class with its    *)
(* webhook notifier, the power-supply check, the per-interface CAN check   *)
(* and the aggregate can_checker.                                          *)
(*                                                                         *)
(* Two specifications:                                                     *)
(*   SpecUnit  a client calls one of the leaf methods once                 *)
(*             (send_google_chat_notification, check_power_supply,         *)
(*             check_can_interface) with inputs drawn from bounded sets;   *)
(*   Spec      one run of can_checker on a constructed Procedure.          *)
(*                                                                         *)
(* Python values: None is the empty tuple <<>> and an object x is <<x>>.   *)
(* The outcome of an external call (requests.post, pycsh.get,              *)
(* pycsh.Ifstat) is a record with a field raised.                          *)
(***************************************************************************)
EXTENDS Integers, Sequences, FiniteSets, TLC

VARIABLES
    pc,          \* position of the running method
    op,          \* the method the client called
    args,        \* self.args: [can_node, interfaces]
    inp,         \* what the external collaborators answered to the latest step
    idx,         \* can_checker: index of the next entry of interfaces
    node_stats,  \* can_checker: interface name -> stats object or None
    all_ok,      \* can_checker: all_ok
    results,     \* what each check_can_interface call of the run returned
    calls,       \* external calls made so far, in program order
    logged,      \* records handed to self.logger by the latest step
    raised,      \* an exception left the method
    ret,         \* return value of the leaf method called
    voltage,     \* check_power_supply: voltage
    current      \* check_power_supply: current

vars == <<pc, op, args, inp, idx, node_stats, all_ok, results, calls, logged,
          raised, ret, voltage, current>>

(***************************************************************************)
(* Bounds and input sets.                                                  *)
(***************************************************************************)
MaxIfs == 3

IfNames == {"CAN0", "CAN1", "CAN2"}

Nodes == {1, 2}

\* args.can_node of the runs
RunNodes == {2}

StatusCodes == {200, 204}

None == <<>>

Some(x) == <<x>>

Abs(n) == IF n < 0 THEN -n ELSE n

\* requests.post either answers with a status code or raises.
PostOutcomes ==
    {[raised |-> FALSE, status_code |-> c] : c \in StatusCodes}
        \cup {[raised |-> TRUE, status_code |-> 0]}

NoInput == [raised |-> FALSE, status_code |-> 0]

(***************************************************************************)
(* External calls and logger records.                                      *)
(***************************************************************************)
Post(text, ifc, node, vals) ==
    [fn |-> "post", text |-> text, ifc |-> ifc, node |-> node, vals |-> vals]

IfstatCall(ifc, node) ==
    [fn |-> "Ifstat", text |-> "", ifc |-> ifc, node |-> node, vals |-> <<>>]

GetCall(name) ==
    [fn |-> "get", text |-> name, ifc |-> "", node |-> 0, vals |-> <<>>]

Rec(level, text) == [level |-> level, text |-> text]

\* A statement of a method body: a logger call or a webhook notification.
Log(level, text) == [stmt |-> "log", level |-> level, msg |-> Post(text, "", 0, <<>>)]

Notify(msg) == [stmt |-> "notify", level |-> "", msg |-> msg]

(***************************************************************************)
(* send_google_chat_notification                                           *)
(***************************************************************************)
\* Faulty variant: every 2xx status counts as success.
send_google_chat_notification_2xx(message, post) ==
    [calls  |-> <<message>>,
     logged |-> <<IF post.raised
                    THEN Rec("error", "Error sending notification")
                    ELSE IF post.status_code >= 200 /\ post.status_code < 300
                           THEN Rec("info", "Notification sent successfully.")
                           ELSE Rec("warning", "Failed to send notification")>>,
     raised |-> FALSE]

\* Faulty variant: the transport exception is logged and raised again.
send_google_chat_notification_reraise(message, post) ==
    [calls  |-> <<message>>,
     logged |-> <<IF post.raised
                    THEN Rec("error", "Error sending notification")
                    ELSE IF post.status_code = 200
                           THEN Rec("info", "Notification sent successfully.")
                           ELSE Rec("warning", "Failed to send notification")>>,
     raised |-> post.raised]

\* Lines 15-30: one POST, one logger record, nothing raised.
send_google_chat_notification(message, post) ==
    [calls  |-> <<message>>,
     logged |-> <<IF post.raised
                    THEN Rec("error", "Error sending notification")
                    ELSE IF post.status_code = 200
                           THEN Rec("info", "Notification sent successfully.")
                           ELSE Rec("warning", "Failed to send notification")>>,
     raised |-> FALSE]

\* Runs the statements in order; a statement that raises ends the run.
\* post is what the webhook answers to the POSTs of this step.
RECURSIVE Run(_, _)
Run(stmts, post) ==
    IF stmts = <<>>
      THEN [calls |-> <<>>, logged |-> <<>>, raised |-> FALSE]
      ELSE LET s == Head(stmts)
               e == IF s.stmt = "log"
                      THEN [calls  |-> <<>>,
                            logged |-> <<Rec(s.level, s.msg.text)>>,
                            raised |-> FALSE]
                      ELSE send_google_chat_notification(s.msg, post)
               t == IF e.raised
                      THEN [calls |-> <<>>, logged |-> <<>>, raised |-> TRUE]
                      ELSE Run(Tail(stmts), post)
           IN [calls  |-> e.calls \o t.calls,
               logged |-> e.logged \o t.logged,
               raised |-> t.raised]

(***************************************************************************)
(* check_power_supply                                                      *)
(***************************************************************************)
ReadValues == {0, 5, 12}

\* pycsh.get either returns a number or raises.
ReadOutcomes ==
    {[raised |-> FALSE, value |-> v] : v \in ReadValues}
        \cup {[raised |-> TRUE, value |-> 0]}

PowerReturn(v, c, callsMade, records) ==
    [calls   |-> callsMade,
     logged  |-> <<Rec("info", "Checking the power supply...")>> \o records
                   \o <<Rec("info", "Power Consumption")>>,
     voltage |-> v,
     current |-> c,
     ret     |-> v * c,
     raised  |-> FALSE]

PowerError == <<Rec("error", "Error reading power supply parameters")>>

\* Faulty variant: the except branch zeroes current only.
check_power_supply_keepvoltage(vread, cread) ==
    IF vread.raised
      THEN PowerReturn(0, 0, <<GetCall("psu_voltage_out")>>, PowerError)
      ELSE IF cread.raised
             THEN PowerReturn(vread.value, 0,
                              <<GetCall("psu_voltage_out"), GetCall("psu_current_out")>>,
                              PowerError)
             ELSE PowerReturn(vread.value, cread.value,
                              <<GetCall("psu_voltage_out"), GetCall("psu_current_out")>>,
                              <<Rec("info", "Voltage"), Rec("info", "Current")>>)

\* Lines 32-49.
check_power_supply(vread, cread) ==
    IF vread.raised
      THEN \* the first get raised: the second get is never made
           PowerReturn(0, 0, <<GetCall("psu_voltage_out")>>, PowerError)
      ELSE IF cread.raised
             THEN PowerReturn(0, 0,
                              <<GetCall("psu_voltage_out"), GetCall("psu_current_out")>>,
                              PowerError)
             ELSE PowerReturn(vread.value, cread.value,
                              <<GetCall("psu_voltage_out"), GetCall("psu_current_out")>>,
                              <<Rec("info", "Voltage"), Rec("info", "Current")>>)

(***************************************************************************)
(* check_can_interface                                                     *)
(***************************************************************************)
StatsOf(tx, rx, drop, tx_error, rx_error, autherr, txbytes, rxbytes) ==
    [tx |-> tx, rx |-> rx, drop |-> drop, tx_error |-> tx_error,
     rx_error |-> rx_error, autherr |-> autherr,
     txbytes |-> txbytes, rxbytes |-> rxbytes]

\* Snapshots for the direct calls: every combination of the field values.
UnitStats ==
    [tx : {0, 4, 5, 100}, rx : {0, 10}, drop : {0, 1, 30},
     tx_error : {0, 1}, rx_error : {0, 2}, autherr : {0, 1},
     txbytes : {0, 64}, rxbytes : {0, 8}]

\* Snapshots for the can_checker runs: a flagged, a failing and a healthy one.
RunStats ==
    { StatsOf(4, 1, 1, 1, 0, 0, 32, 8),       \* 20% dropped, tx errors too
      StatsOf(5, 2, 1, 0, 2, 0, 40, 16),      \* 16.67% dropped, rx errors
      StatsOf(5, 10, 0, 0, 0, 0, 40, 80) }    \* healthy

NoStats == StatsOf(0, 0, 0, 0, 0, 0, 0, 0)

\* pycsh.Ifstat either returns a snapshot or raises.
IfstatOutcomes(S) ==
    {[raised |-> FALSE, stats |-> s] : s \in S}
        \cup {[raised |-> TRUE, stats |-> NoStats]}

\* (a / b) * 100 as the fraction num/den; ZeroDivisionError when b = 0.
\* For counters below 2^33 the float result compares with 20 like the
\* fraction, and on the snapshots used here it formats like it.
TrueDivTimes100(a, b) == [raised |-> b = 0, num |-> a * 100, den |-> b]

FracGE(q, n) == q.num >= n * q.den

\* f"{q:.2f}" in hundredths, rounded to nearest.
Format2f(q) == (2 * 100 * q.num + q.den) \div (2 * q.den)

\* Lines 61-71: the statistics are logged, then notified.
StatsLines(interface_name, node, stats) ==
    << Log("info", "Interface Statistics on Node"),
       Log("info", "TX, RX"),
       Log("info", "TX Errors, RX Errors"),
       Log("info", "Dropped Packets, Auth Errors"),
       Log("info", "TX Bytes, RX Bytes"),
       Notify(Post("Interface Statistics on Node", interface_name, node, <<>>)),
       Notify(Post("TX, RX", interface_name, node, <<stats.tx, stats.rx>>)),
       Notify(Post("TX Errors, RX Errors", interface_name, node,
                   <<stats.tx_error, stats.rx_error>>)),
       Notify(Post("Dropped Packets, Auth Errors", interface_name, node,
                   <<stats.drop, stats.autherr>>)),
       Notify(Post("TX Bytes, RX Bytes", interface_name, node,
                   <<stats.txbytes, stats.rxbytes>>)) >>

Warn(text, interface_name, node, vals) ==
    << Log("warning", text), Notify(Post(text, interface_name, node, vals)) >>

Outcome(stmts, r) == [stmts |-> stmts, ret |-> r, raised |-> FALSE]

\* Faulty variant: the error counters are tested before the drop rate.
Classify_errorsfirst(interface_name, node, stats) ==
    LET total_packets == stats.tx + stats.drop
        drop_percentage == TrueDivTimes100(stats.drop, total_packets)
    IN IF total_packets = 0
         THEN Outcome(Warn("No packets transmitted", interface_name, node, <<>>), None)
       ELSE IF drop_percentage.raised
         THEN [stmts |-> <<>>, ret |-> None, raised |-> TRUE]
       ELSE IF stats.tx_error > 0 \/ stats.rx_error > 0
         THEN Outcome(Warn("Transmission/Reception errors", interface_name, node, <<>>),
                      None)
       ELSE IF stats.autherr > 0
         THEN Outcome(Warn("Authentication errors", interface_name, node, <<>>), None)
       ELSE IF FracGE(drop_percentage, 20)
         THEN Outcome(Warn("% of packets dropped", interface_name, node,
                           <<Format2f(drop_percentage)>>), Some(stats))
       ELSE Outcome(<< Log("info", "appears to be operating correctly"),
                       Notify(Post("appears to be operating correctly",
                                   interface_name, node, <<>>)) >>,
                    Some(stats))

\* Faulty variant: autherr is not tested.
Classify_noauth(interface_name, node, stats) ==
    LET total_packets == stats.tx + stats.drop
        drop_percentage == TrueDivTimes100(stats.drop, total_packets)
    IN IF total_packets = 0
         THEN Outcome(Warn("No packets transmitted", interface_name, node, <<>>), None)
       ELSE IF drop_percentage.raised
         THEN [stmts |-> <<>>, ret |-> None, raised |-> TRUE]
       ELSE IF FracGE(drop_percentage, 20)
         THEN Outcome(Warn("% of packets dropped", interface_name, node,
                           <<Format2f(drop_percentage)>>), Some(stats))
       ELSE IF stats.tx_error > 0 \/ stats.rx_error > 0
         THEN Outcome(Warn("Transmission/Reception errors", interface_name, node, <<>>),
                      None)
       ELSE Outcome(<< Log("info", "appears to be operating correctly"),
                       Notify(Post("appears to be operating correctly",
                                   interface_name, node, <<>>)) >>,
                    Some(stats))

\* Faulty variant: no guard for tx + drop = 0 before the division.
Classify_noguard(interface_name, node, stats) ==
    LET total_packets == stats.tx + stats.drop
        drop_percentage == TrueDivTimes100(stats.drop, total_packets)
    IN IF drop_percentage.raised
         THEN [stmts |-> <<>>, ret |-> None, raised |-> TRUE]
       ELSE IF FracGE(drop_percentage, 20)
         THEN Outcome(Warn("% of packets dropped", interface_name, node,
                           <<Format2f(drop_percentage)>>), Some(stats))
       ELSE IF stats.tx_error > 0 \/ stats.rx_error > 0
         THEN Outcome(Warn("Transmission/Reception errors", interface_name, node, <<>>),
                      None)
       ELSE IF stats.autherr > 0
         THEN Outcome(Warn("Authentication errors", interface_name, node, <<>>), None)
       ELSE Outcome(<< Log("info", "appears to be operating correctly"),
                       Notify(Post("appears to be operating correctly",
                                   interface_name, node, <<>>)) >>,
                    Some(stats))

\* Lines 74-102: the classification of a retrieved snapshot.
Classify(interface_name, node, stats) ==
    LET total_packets == stats.tx + stats.drop
        drop_percentage == TrueDivTimes100(stats.drop, total_packets)
    IN IF total_packets = 0
         THEN Outcome(Warn("No packets transmitted", interface_name, node, <<>>), None)
       ELSE IF drop_percentage.raised
         THEN [stmts |-> <<>>, ret |-> None, raised |-> TRUE]
       ELSE IF FracGE(drop_percentage, 20)
         THEN Outcome(Warn("% of packets dropped", interface_name, node,
                           <<Format2f(drop_percentage)>>), Some(stats))
       ELSE IF stats.tx_error > 0 \/ stats.rx_error > 0
         THEN Outcome(Warn("Transmission/Reception errors", interface_name, node, <<>>),
                      None)
       ELSE IF stats.autherr > 0
         THEN Outcome(Warn("Authentication errors", interface_name, node, <<>>), None)
       ELSE Outcome(<< Log("info", "appears to be operating correctly"),
                       Notify(Post("appears to be operating correctly",
                                   interface_name, node, <<>>)) >>,
                    Some(stats))

check_can_interface(interface_name, node, ifstat, post) ==
    LET retrieval == <<IfstatCall(interface_name, node)>>
        body ==
            IF ifstat.raised
              THEN [calls |-> retrieval, logged |-> <<>>, ret |-> None, raised |-> TRUE]
              ELSE LET c == Classify(interface_name, node, ifstat.stats)
                       r == Run(StatsLines(interface_name, node, ifstat.stats) \o c.stmts,
                                post)
                   IN [calls  |-> retrieval \o r.calls,
                       logged |-> r.logged,
                       ret    |-> c.ret,
                       raised |-> r.raised \/ c.raised]
        \* Lines 104-107: except Exception
        handler ==
            Run(<< Log("error", "An error occurred while checking"),
                   Notify(Post("An error occurred while checking",
                               interface_name, node, <<>>)) >>, post)
    IN IF body.raised
         THEN [calls  |-> body.calls \o handler.calls,
               logged |-> body.logged \o handler.logged,
               ret    |-> None,
               raised |-> handler.raised]
         ELSE body

(***************************************************************************)
(* SpecUnit: one direct call of a leaf method.                             *)
(***************************************************************************)
Messages == {Post(t, "", 0, <<>>) : t \in {"hello", "Starting CAN interface checks..."}}

InitUnit ==
    /\ pc = "idle"
    /\ op = "none"
    /\ args = [can_node |-> 1, interfaces |-> <<>>]
    /\ inp = NoInput
    /\ idx = 1
    /\ node_stats = <<>>
    /\ all_ok = TRUE
    /\ results = <<>>
    /\ calls = <<>>
    /\ logged = <<>>
    /\ raised = FALSE
    /\ ret = None
    /\ voltage = 0
    /\ current = 0

CallNotify ==
    /\ pc = "idle"
    /\ \E message \in Messages, post \in PostOutcomes :
         LET r == send_google_chat_notification(message, post)
         IN /\ inp' = post
            /\ calls' = calls \o r.calls
            /\ logged' = r.logged
            /\ raised' = r.raised
    /\ op' = "send_google_chat_notification"
    /\ pc' = "returned"
    /\ ret' = None
    /\ UNCHANGED <<args, idx, node_stats, all_ok, results, voltage, current>>

CallPower ==
    /\ pc = "idle"
    /\ \E vread \in ReadOutcomes, cread \in ReadOutcomes :
         LET r == check_power_supply(vread, cread)
         IN /\ inp' = [v |-> vread, c |-> cread]
            /\ calls' = calls \o r.calls
            /\ logged' = r.logged
            /\ raised' = r.raised
            /\ ret' = r.ret
            /\ voltage' = r.voltage
            /\ current' = r.current
    /\ op' = "check_power_supply"
    /\ pc' = "returned"
    /\ UNCHANGED <<args, idx, node_stats, all_ok, results>>

CallCheck ==
    /\ pc = "idle"
    /\ \E interface_name \in IfNames, node \in Nodes,
          ifstat \in IfstatOutcomes(UnitStats), post \in PostOutcomes :
         LET r == check_can_interface(interface_name, node, ifstat, post)
         IN /\ inp' = [ifstat |-> ifstat, post |-> post]
            /\ calls' = calls \o r.calls
            /\ logged' = r.logged
            /\ raised' = r.raised
            /\ ret' = r.ret
    /\ op' = "check_can_interface"
    /\ pc' = "returned"
    /\ UNCHANGED <<args, idx, node_stats, all_ok, results, voltage, current>>

NextUnit == CallNotify \/ CallPower \/ CallCheck

SpecUnit == InitUnit /\ [][NextUnit]_vars

(***************************************************************************)
(* can_checker                                                             *)
(***************************************************************************)
RECURSIVE SeqsUpTo(_, _)
SeqsUpTo(S, n) ==
    IF n = 0 THEN {<<>>}
    ELSE LET shorter == SeqsUpTo(S, n - 1)
         IN shorter \cup {Append(q, x) : q \in shorter, x \in S}

Init ==
    /\ pc = "start"
    /\ op = "can_checker"
    /\ args \in [can_node : RunNodes, interfaces : SeqsUpTo(IfNames, MaxIfs)]
    /\ inp = NoInput
    /\ idx = 1
    /\ node_stats = <<>>
    /\ all_ok = TRUE
    /\ results = <<>>
    /\ calls = <<>>
    /\ logged = <<>>
    /\ raised = FALSE
    /\ ret = None
    /\ voltage = 0
    /\ current = 0

\* An exception that leaves a step leaves can_checker: nothing catches it.
Propagate(r) ==
    /\ pc' = "done"
    /\ raised' = TRUE
    /\ calls' = calls \o r.calls
    /\ logged' = r.logged
    /\ UNCHANGED <<idx, node_stats, all_ok, results>>

\* Lines 116-126: announcement, all_ok = True, empty maps, the node's loop.
Start ==
    /\ pc = "start"
    /\ \E post \in PostOutcomes :
         LET r == Run(<< Log("info", "Starting CAN interface checks..."),
                         Notify(Post("Starting CAN interface checks...", "", 0, <<>>)) >>,
                      post)
         IN /\ inp' = post
            /\ IF r.raised
                 THEN Propagate(r)
                 ELSE /\ all_ok' = TRUE
                      /\ node_stats' = <<>>
                      /\ idx' = 1
                      /\ results' = <<>>
                      /\ calls' = calls \o r.calls
                      /\ logged' = r.logged
                                     \o <<Rec("info", "Checking interfaces on Node")>>
                      /\ raised' = FALSE
                      /\ pc' = IF Len(args.interfaces) = 0 THEN "cross" ELSE "loop"
    /\ UNCHANGED <<op, args, ret, voltage, current>>

\* Faulty variant: the first result stored for a name is kept.
Store_first(ifstats, interface, stats_obj) ==
    [n \in (DOMAIN ifstats) \cup {interface} |->
        IF n \in DOMAIN ifstats THEN ifstats[n] ELSE stats_obj]

\* Lines 129-133: node_stats[interface] = stats_obj (None when it failed).
Store(ifstats, interface, stats_obj) ==
    [n \in (DOMAIN ifstats) \cup {interface} |->
        IF n = interface THEN stats_obj ELSE ifstats[n]]

\* Faulty variant: all_ok follows the latest check only.
UpdateAllOk_overwrite(ok, stats_obj) == stats_obj # None

\* Lines 129-130: all_ok = False when the check returned None.
UpdateAllOk(ok, stats_obj) == IF stats_obj = None THEN FALSE ELSE ok

\* Faulty variant: an entry whose check returned None is checked again.
Advance_retry(i, stats_obj) == IF stats_obj = None THEN i ELSE i + 1

\* Line 127: the for loop moves to the next entry whatever the check returned.
Advance(i, stats_obj) == i + 1

\* Lines 127-134: one iteration of the loop over interfaces.
CheckNext ==
    /\ pc = "loop"
    /\ idx <= Len(args.interfaces)
    /\ \E ifstat \in IfstatOutcomes(RunStats), post \in PostOutcomes :
         LET interface == args.interfaces[idx]
             r == check_can_interface(interface, args.can_node, ifstat, post)
         IN /\ inp' = post
            /\ IF r.raised
                 THEN Propagate(r)
                 ELSE /\ all_ok' = UpdateAllOk(all_ok, r.ret)
                      /\ node_stats' = Store(node_stats, interface, r.ret)
                      /\ results' = Append(results, [ifstat |-> ifstat, ret |-> r.ret])
                      /\ idx' = Advance(idx, r.ret)
                      /\ calls' = calls \o r.calls
                      /\ logged' = r.logged
                      /\ raised' = FALSE
                      /\ pc' = IF idx' > Len(args.interfaces) THEN "cross" ELSE "loop"
    /\ UNCHANGED <<op, args, ret, voltage, current>>

\* Lines 142-158: rx and tx of a recorded result, 0 for None.
RxTx(stats_obj) ==
    IF stats_obj = None THEN [rx |-> 0, tx |-> 0]
    ELSE [rx |-> stats_obj[1].rx, tx |-> stats_obj[1].tx]

UsingZero(name, node, stats_obj) ==
    IF stats_obj = None
      THEN Warn("stats are None (failed earlier). Using 0 for cross-compare.",
                name, node, <<>>)
      ELSE <<>>

\* Faulty variant: one of the two names is enough, the other reads as None.
Lookup(ifstats, n) == IF n \in DOMAIN ifstats THEN ifstats[n] ELSE None

CrossCompareStmts_either(node, ifstats) ==
    IF "CAN0" \in DOMAIN ifstats \/ "CAN1" \in DOMAIN ifstats
      THEN LET can0 == RxTx(Lookup(ifstats, "CAN0"))
               can1 == RxTx(Lookup(ifstats, "CAN1"))
               rx_diff == Abs(can0.rx - can1.rx)
               tx_diff == Abs(can0.tx - can1.tx)
           IN UsingZero("CAN0", node, Lookup(ifstats, "CAN0"))
                \o UsingZero("CAN1", node, Lookup(ifstats, "CAN1"))
                \o << Log("info", "Cross-Compare Node"),
                      Log("info", "RX diff, TX diff"),
                      Notify(Post("Cross-Compare Node", "", node,
                                  <<can0.rx, can1.rx, can0.tx, can1.tx>>)),
                      Notify(Post("RX diff, TX diff", "", node, <<rx_diff, tx_diff>>)) >>
      ELSE << Log("info", "has no CAN0 vs CAN1 cross-comparison"),
              Notify(Post("has no CAN0 vs CAN1 cross-comparison", "", node, <<>>)) >>

\* Lines 137-174: the statements of the cross-compare of one node.
CrossCompareStmts(node, ifstats) ==
    IF "CAN0" \in DOMAIN ifstats /\ "CAN1" \in DOMAIN ifstats
      THEN LET can0 == RxTx(ifstats["CAN0"])
               can1 == RxTx(ifstats["CAN1"])
               rx_diff == Abs(can0.rx - can1.rx)
               tx_diff == Abs(can0.tx - can1.tx)
           IN UsingZero("CAN0", node, ifstats["CAN0"])
                \o UsingZero("CAN1", node, ifstats["CAN1"])
                \o << Log("info", "Cross-Compare Node"),
                      Log("info", "RX diff, TX diff"),
                      Notify(Post("Cross-Compare Node", "", node,
                                  <<can0.rx, can1.rx, can0.tx, can1.tx>>)),
                      Notify(Post("RX diff, TX diff", "", node, <<rx_diff, tx_diff>>)) >>
      ELSE << Log("info", "has no CAN0 vs CAN1 cross-comparison"),
              Notify(Post("has no CAN0 vs CAN1 cross-comparison", "", node, <<>>)) >>

\* Lines 136-174: stats_map holds the one configured node.
CrossCompare ==
    /\ pc = "cross"
    /\ \E post \in PostOutcomes :
         LET r == Run(CrossCompareStmts(args.can_node, node_stats), post)
         IN /\ inp' = post
            /\ IF r.raised
                 THEN Propagate(r)
                 ELSE /\ calls' = calls \o r.calls
                      /\ logged' = r.logged
                      /\ raised' = FALSE
                      /\ pc' = "summary"
                      /\ UNCHANGED <<idx, node_stats, all_ok, results>>
    /\ UNCHANGED <<op, args, ret, voltage, current>>

AllHealthy == "All specified CAN interfaces are functioning correctly on all nodes."

Issues == "One or more CAN interfaces have reported issues on some nodes."

\* Lines 176-181.
SummaryStmts(ok) ==
    IF ok
      THEN << Log("info", AllHealthy), Notify(Post(AllHealthy, "", 0, <<>>)) >>
      ELSE << Log("warning", Issues), Notify(Post(Issues, "", 0, <<>>)) >>

Summary ==
    /\ pc = "summary"
    /\ \E post \in PostOutcomes :
         LET r == Run(SummaryStmts(all_ok), post)
         IN /\ inp' = post
            /\ IF r.raised
                 THEN Propagate(r)
                 ELSE /\ calls' = calls \o r.calls
                      /\ logged' = r.logged
                      /\ raised' = FALSE
                      /\ pc' = "done"
                      /\ UNCHANGED <<idx, node_stats, all_ok, results>>
    /\ UNCHANGED <<op, args, ret, voltage, current>>

Next == Start \/ CheckNext \/ CrossCompare \/ Summary

Spec == Init /\ [][Next]_vars

(***************************************************************************)
(* Properties of the leaf methods (SpecUnit).                              *)
(***************************************************************************)
Returned(method) == op = method /\ pc = "returned"

Posted(text) == \E k \in DOMAIN calls : calls[k].fn = "post" /\ calls[k].text = text

NumCalls(fn) == Cardinality({k \in DOMAIN calls : calls[k].fn = fn})

Levels == {logged[k].level : k \in DOMAIN logged}

\* The snapshot the direct call of check_can_interface retrieved.
Retrieved == Returned("check_can_interface") /\ ~inp.ifstat.raised

C2_ErrorsReturnNone ==
    Retrieved =>
        LET st == inp.ifstat.stats
            clean == st.tx_error = 0 /\ st.rx_error = 0 /\ st.autherr = 0
        IN (st.tx + st.drop > 0 /\ 5 * st.drop < st.tx + st.drop) =>
              /\ ~raised
              /\ clean => ret = Some(st)
              /\ ~clean => ret = None

C2_Witness ==
    /\ Retrieved
    /\ inp.ifstat.stats.tx = 5 /\ inp.ifstat.stats.drop = 1
    /\ inp.ifstat.stats.tx_error = 0
    /\ inp.ifstat.stats.rx_error = 0
    /\ inp.ifstat.stats.autherr > 0
    /\ ret = None

\* C3: a retrieved snapshot with tx + drop = 0 gives None whatever the other
\* fields are, through the "No packets transmitted" branch: the division is
\* never reached, so the exception handler never runs.
C3_NoTrafficReturnsNone ==
    Retrieved =>
        LET st == inp.ifstat.stats
        IN (st.tx + st.drop = 0) =>
              /\ ret = None
              /\ ~raised
              /\ Posted("No packets transmitted")
              /\ ~Posted("An error occurred while checking")
              /\ \A k \in DOMAIN logged :
                    logged[k].text # "An error occurred while checking"

C3_Witness ==
    /\ Retrieved
    /\ inp.ifstat.stats.tx = 0 /\ inp.ifstat.stats.drop = 0
    /\ inp.ifstat.stats.rx > 0
    /\ inp.ifstat.stats.tx_error > 0
    /\ inp.ifstat.stats.autherr > 0
    /\ inp.ifstat.stats.rxbytes > 0
    /\ ret = None

\* C8: send_google_chat_notification makes one POST, returns without
\* raising and logs one record: info exactly for status 200, warning
\* exactly for another status, error exactly when the POST raised.
C8_NotifyNeverRaises ==
    Returned("send_google_chat_notification") =>
        /\ ~raised
        /\ Len(calls) = 1
        /\ calls[1].fn = "post"
        /\ Len(logged) = 1
        /\ logged[1].level = "info" <=> (~inp.raised /\ inp.status_code = 200)
        /\ logged[1].level = "warning" <=> (~inp.raised /\ inp.status_code # 200)
        /\ logged[1].level = "error" <=> inp.raised

C8_Witness ==
    /\ Returned("send_google_chat_notification")
    /\ ~inp.raised
    /\ inp.status_code = 204
    /\ logged = <<Rec("warning", "Failed to send notification")>>

\* C9: check_power_supply returns voltage * current when both reads
\* succeed; when either read raises, voltage and current are both 0, the
\* error is logged, 0 is returned and nothing is raised.
C9_PowerReadFailureAbsorbed ==
    Returned("check_power_supply") =>
        /\ ~raised
        /\ (~inp.v.raised /\ ~inp.c.raised) =>
              /\ ret = inp.v.value * inp.c.value
              /\ "error" \notin Levels
        /\ (inp.v.raised \/ inp.c.raised) =>
              /\ voltage = 0
              /\ current = 0
              /\ ret = 0
              /\ "error" \in Levels

C9_Witness ==
    /\ Returned("check_power_supply")
    /\ ~inp.v.raised
    /\ inp.v.value = 12
    /\ inp.c.raised
    /\ NumCalls("get") = 2
    /\ ret = 0

(***************************************************************************)
(* Properties of can_checker (Spec).                                       *)
(***************************************************************************)
Configured(name) == \E k \in DOMAIN args.interfaces : args.interfaces[k] = name

PostsOf(text) == {k \in DOMAIN calls : calls[k].fn = "post" /\ calls[k].text = text}

SummaryPosts == PostsOf(AllHealthy) \cup PostsOf(Issues)

UsingZeroText == "stats are None (failed earlier). Using 0 for cross-compare."

CrossPosts ==
    PostsOf("Cross-Compare Node") \cup PostsOf("RX diff, TX diff")
        \cup PostsOf(UsingZeroText)

SkipPosts == PostsOf("has no CAN0 vs CAN1 cross-comparison")

IfstatAttempts == SelectSeq(calls, LAMBDA c : c.fn = "Ifstat")

\* The result of the last check of the interface called name in the run.
Recorded(name) ==
    LET last == CHOOSE k \in DOMAIN results :
                    /\ args.interfaces[k] = name
                    /\ \A j \in DOMAIN results : args.interfaces[j] = name => j <= k
    IN results[last].ret

\* C4: at the end of a run the all-healthy notification has been sent
\* exactly when every check of the run (one per entry of interfaces)
\* returned a snapshot, and the issues notification exactly otherwise.
C4_AllHealthyIffNoAbsent ==
    pc = "done" =>
        LET everyOk == \A k \in DOMAIN results : results[k].ret # None
        IN /\ Len(results) = Len(args.interfaces)
           /\ Posted(AllHealthy) <=> everyOk
           /\ Posted(Issues) <=> ~everyOk

C4_Witness ==
    /\ pc = "done"
    /\ Len(args.interfaces) >= 2
    /\ args.interfaces[1] = args.interfaces[2]
    /\ results[1].ret = None
    /\ results[2].ret # None
    /\ 5 * results[2].ifstat.stats.drop
          >= results[2].ifstat.stats.tx + results[2].ifstat.stats.drop
    /\ \A n \in DOMAIN node_stats : node_stats[n] # None
    /\ Posted(Issues)

\* C5: no exception leaves can_checker; a run ends with one summary
\* notification, sent last; a retrieval that raised counts as None and the
\* entries after it are checked all the same.
C5_CheckerNeverFails ==
    /\ ~raised
    /\ pc = "loop" => idx <= Len(args.interfaces)
    /\ \A k \in DOMAIN results : results[k].ifstat.raised => results[k].ret = None
    /\ pc = "done" =>
          /\ Len(results) = Len(args.interfaces)
          /\ Cardinality(SummaryPosts) = 1
          /\ Len(calls) \in SummaryPosts
          /\ ~(Posted(AllHealthy) /\ Posted(Issues))

C5_Witness ==
    /\ pc = "done"
    /\ inp.raised
    /\ Len(results) = MaxIfs
    /\ results[1].ifstat.raised
    /\ results[2].ret # None
    /\ Cardinality(SummaryPosts) = 1

\* C6: when CAN0 and CAN1 are both configured, the cross-compare reports
\* |r0 - r1| and |t0 - t1| of the recorded results, an absent result
\* counting as rx = tx = 0 and announced by its "Using 0" notification.
C6_CrossCompareZeroSubstitution ==
    (pc \in {"summary", "done"} /\ Configured("CAN0") /\ Configured("CAN1")) =>
        LET s0 == Recorded("CAN0")
            s1 == Recorded("CAN1")
            r0 == IF s0 = None THEN 0 ELSE s0[1].rx
            t0 == IF s0 = None THEN 0 ELSE s0[1].tx
            r1 == IF s1 = None THEN 0 ELSE s1[1].rx
            t1 == IF s1 = None THEN 0 ELSE s1[1].tx
        IN /\ Cardinality(PostsOf("RX diff, TX diff")) = 1
           /\ \A k \in PostsOf("RX diff, TX diff") :
                 calls[k].vals = <<Abs(r0 - r1), Abs(t0 - t1)>>
           /\ Cardinality(PostsOf("Cross-Compare Node")) = 1
           /\ \A k \in PostsOf("Cross-Compare Node") :
                 calls[k].vals = <<r0, r1, t0, t1>>
           /\ (s0 = None) <=>
                 (\E k \in PostsOf(UsingZeroText) : calls[k].ifc = "CAN0")
           /\ (s1 = None) <=>
                 (\E k \in PostsOf(UsingZeroText) : calls[k].ifc = "CAN1")

C6_Witness ==
    /\ pc = "summary"
    /\ Configured("CAN0") /\ Configured("CAN1")
    /\ Recorded("CAN0") = None
    /\ Recorded("CAN1") # None
    /\ \E k \in DOMAIN results :
          /\ args.interfaces[k] = "CAN0"
          /\ results[k].ret # None
    /\ \E k \in PostsOf("RX diff, TX diff") : calls[k].vals = <<10, 5>>
    /\ \E k \in PostsOf(UsingZeroText) : calls[k].ifc = "CAN0"

\* C7: the cross-compare notifications are sent exactly when "CAN0" and
\* "CAN1" both occur in interfaces; otherwise the one "has no CAN0 vs CAN1
\* cross-comparison" notification is sent and no diff is notified.
C7_CrossCompareOnlyForBothNames ==
    pc \in {"summary", "done"} =>
        LET both == Configured("CAN0") /\ Configured("CAN1")
        IN /\ both <=> PostsOf("Cross-Compare Node") # {}
           /\ both <=> PostsOf("RX diff, TX diff") # {}
           /\ both => SkipPosts = {}
           /\ ~both => (Cardinality(SkipPosts) = 1 /\ CrossPosts = {})

C7_Witness ==
    /\ pc = "summary"
    /\ args.interfaces = <<"CAN0", "CAN2">>
    /\ Cardinality(SkipPosts) = 1
    /\ CrossPosts = {}

\* C10: Ifstat is called once per entry of interfaces, in the list's order;
\* the cross-compare step comes after every check and the summary after the
\* cross-compare step.
C10_SingleAttemptInOrder ==
    /\ Len(IfstatAttempts) <= Len(args.interfaces)
    /\ \A k \in DOMAIN IfstatAttempts :
          /\ IfstatAttempts[k].ifc = args.interfaces[k]
          /\ IfstatAttempts[k].node = args.can_node
    /\ pc \in {"cross", "summary", "done"} =>
          Len(IfstatAttempts) = Len(args.interfaces)
    /\ pc \in {"start", "loop", "cross"} => CrossPosts \cup SkipPosts = {}
    /\ pc \in {"summary", "done"} => CrossPosts \cup SkipPosts # {}
    /\ pc # "done" => SummaryPosts = {}
    /\ \A i \in DOMAIN calls, j \in CrossPosts \cup SkipPosts :
          calls[i].fn = "Ifstat" => i < j
    /\ \A i \in CrossPosts \cup SkipPosts, j \in SummaryPosts : i < j

C10_Witness ==
    /\ pc = "done"
    /\ Len(args.interfaces) = MaxIfs
    /\ Len(IfstatAttempts) = MaxIfs
    /\ results[1].ifstat.raised
    /\ results[2].ret = None
    /\ ~results[2].ifstat.raised

====
